---- MODULE Spec2Model ----
(***************************************************************************)
(* Syncboard synchronization hub (src/server.js): the socket handlers      *)
(* authenticate, clipboard_update, clear_history, delete_item, disconnect  *)
(* over the in-memory maps clipboardHistory and userSockets, and the        *)
(* clipboard monitor of the desktop client (src/renderer.js).              *)
(***************************************************************************)
EXTENDS Integers, Sequences, FiniteSets, TLC

\* src/server.js:29
MAX_HISTORY == 10

\* ---- bounds of the model ------------------------------------------------
NConns == 2
NUsers == 2
MaxClock == 2
MaxTies == 1
NContents == 1
NTexts == 2
MaxCopies == 2

Conns == 1..NConns
Users == 1..NUsers

\* socket.userId before any successful authenticate (undefined, falsy)
NoUser == 0
\* data.type missing from the payload (undefined, falsy)
NoType == "undefined"
NoArg == "none"
\* the empty string: lastClipboardContent at start, an empty OS clipboard
NoText == 0
\* the texts a user may copy
Texts == 1..NTexts
\* the value of device where the devices behind the connections are left out
NoDevices == 0

Hostname(c) == IF c = 1 THEN "hostA" ELSE "hostB"
Types == {NoType, "text", "image"}

\* A token is a payload and a signature; jwt.verify accepts it iff the
\* signature was made with JWT_SECRET.
Tokens == [userId : Users, signed : BOOLEAN]

VARIABLES
  status,            \* Conns -> "new" | "open" | "closed" (transport)
  socketUserId,      \* Conns -> Users \cup {NoUser}        (socket.userId)
  userSockets,       \* Map userId -> Set of socket ids
  clipboardHistory,  \* Map userId -> array of clipboard items
  now,               \* the clock read by Date.now() / new Date()
  ties,              \* how often the clock has repeated its last reading
  event,             \* the inbound event the last handler served
  emitted,           \* the emit calls of that handler, in order
  device             \* the desktop clients, one behind each connection:
                     \*   lastClipboardContent, clipboard (of the OS): Conns -> text
                     \*   outbox: Conns -> clipboard_update payloads emitted, not yet served
                     \*   inbox: Conns -> clipboard_sync items sent to it, not yet handled
                     \*   copies: how many times a user has copied a text
                     \*   updates: how many clipboard_update events were emitted

vars == <<status, socketUserId, userSockets, clipboardHistory, now, ties, event, emitted,
          device>>

\* ---- Map helpers ----------------------------------------------------------
MapSet(m, k, v) == [x \in DOMAIN m \cup {k} |-> IF x = k THEN v ELSE m[x]]
MapDelete(m, k) == [x \in DOMAIN m \ {k} |-> m[x]]
EmptyMap == [x \in {} |-> {}]

\* clipboardHistory.get(userId) || []
HistoryOf(m, u) == IF u \in DOMAIN m THEN m[u] ELSE <<>>

\* Date.now().toString()
DateNowString(t) == ToString(t)
\* new Date().toISOString()
ToISOString(t) == "T" \o ToString(t)

\* jwt.verify(token, JWT_SECRET): the decoded payload, or a throw
jwt_verify(token) ==
  IF token.signed THEN [ok |-> TRUE, userId |-> token.userId]
  ELSE [ok |-> FALSE, userId |-> NoUser]

\* ---- emissions ------------------------------------------------------------
\* socket.emit(event, data)
Emit(c, ev, data) == [to |-> {c}, event |-> ev, data |-> data]

\* broadcastToUserDevices without the test socketId !== excludeSocketId
broadcastToUserDevices_NoExclude(sockets, userId, ev, data, excludeSocketId) ==
  IF userId \in DOMAIN sockets
  THEN <<[to |-> sockets[userId], event |-> ev, data |-> data]>>
  ELSE <<>>

\* broadcastToUserDevices(userId, event, data, excludeSocketId): one emit per
\* socket id of userSockets.get(userId) other than the excluded one
broadcastToUserDevices(sockets, userId, ev, data, excludeSocketId) ==
  IF userId \in DOMAIN sockets
  THEN <<[to |-> sockets[userId] \ {excludeSocketId}, event |-> ev, data |-> data]>>
  ELSE <<>>

NoExclude == 0

\* The inbound event a handler served, with the handler's locals: the
\* existingIndex it found (0 for -1) and whether it took the pop() branch.
Served(op, c, arg, existingIndex, popped) ==
  [op |-> op, conn |-> c, arg |-> arg,
   existingIndex |-> existingIndex, popped |-> popped]

\* The delete_item event a handler served, with how many entries its locals
\* history and newHistory differ by.
ServedDelete(c, itemId, history, newHistory) ==
  Served("delete_item", c, itemId, 0, FALSE)
    @@ [removed |-> Len(history) - Len(newHistory)]

\* ---- array helpers --------------------------------------------------------
\* findIndex that starts its scan at the second entry
FindIndex_SkipFirst(history, content, type) ==
  LET hits == {i \in 2..Len(history) :
                 history[i].content = content /\ history[i].type = type}
  IN IF hits = {} THEN 0 ELSE CHOOSE i \in hits : \A j \in hits : i <= j

\* history.findIndex(pred): first index (1-based here), 0 for -1
FindIndex(history, content, type) ==
  LET hits == {i \in 1..Len(history) :
                 history[i].content = content /\ history[i].type = type}
  IN IF hits = {} THEN 0 ELSE CHOOSE i \in hits : \A j \in hits : i <= j

\* history.pop() where the handler has history.splice(index, 1)
Splice_Last(history, index) == SubSeq(history, 1, Len(history) - 1)

\* history.splice(index, 1)
Splice(history, index) ==
  [i \in 1..(Len(history) - 1) |->
     IF i < index THEN history[i] ELSE history[i + 1]]

\* history.push(item) where the handler has history.unshift(item)
Unshift_Append(history, item) == history \o <<item>>

\* history.unshift(item)
Unshift(history, item) == <<item>> \o history

\* the handler without its trim
Trim_Never(history) == history

\* if (history.length > MAX_HISTORY) history.pop()
Trim(history) ==
  IF Len(history) > MAX_HISTORY THEN SubSeq(history, 1, Len(history) - 1)
  ELSE history

\* delete_item that removes the first entry with the id and then every
\* entry after it: history.slice(0, history.findIndex(...))
FilterId_Truncate(history, itemId) ==
  LET hits == {i \in DOMAIN history : history[i].id = itemId}
  IN IF hits = {} THEN history
     ELSE SubSeq(history, 1, (CHOOSE i \in hits : \A j \in hits : i <= j) - 1)

\* history.filter(item => item.id === itemId): the test inverted
FilterId_Inverted(history, itemId) ==
  SelectSeq(history, LAMBDA item : item.id = itemId)

\* history.filter(item => item.id !== itemId)
RECURSIVE FilterId(_, _)
FilterId(history, itemId) ==
  IF history = <<>> THEN <<>>
  ELSE IF Head(history).id # itemId
       THEN <<Head(history)>> \o FilterId(Tail(history), itemId)
       ELSE FilterId(Tail(history), itemId)

\* the clipboardItem built from the payload
ClipboardItem(data, t) ==
  [id |-> DateNowString(t),
   content |-> data.content,
   type |-> IF data.type = NoType THEN "text" ELSE data.type,
   timestamp |-> ToISOString(t),
   deviceId |-> data.deviceId,
   deviceName |-> data.deviceName]

\* const existingIndex = history.findIndex(...)
ExistingIndex(history, item) == FindIndex(history, item.content, item.type)

\* history.unshift(item) without the duplicate check
Inserted_NoDedup(history, item) == Unshift(history, item)

\* if (existingIndex !== -1) history.splice(existingIndex, 1); history.unshift(item)
Inserted(history, item) ==
  LET existingIndex == ExistingIndex(history, item)
      deduped == IF existingIndex # 0 THEN Splice(history, existingIndex)
                 ELSE history
  IN Unshift(deduped, item)

\* the test history.length > MAX_HISTORY after the unshift
Overflows(history, item) == Len(Inserted(history, item)) > MAX_HISTORY

\* dedup, unshift and trim of the clipboard_update handler
Push(history, item) == Trim(Inserted(history, item))

\* ---- the disconnect handler ----------------------------------------------
\* disconnect without the delete of a set that has become empty
DisconnectEffect_KeepEmpty(sockets, c, uid) ==
  IF uid # NoUser /\ uid \in DOMAIN sockets
  THEN MapSet(sockets, uid, sockets[uid] \ {c})
  ELSE sockets

\* disconnect that gets or creates the set of socket.userId, whatever it is,
\* and writes it back
DisconnectEffect_GetOrCreate(sockets, c, uid) ==
  LET rest == (IF uid \in DOMAIN sockets THEN sockets[uid] ELSE {}) \ {c}
  IN MapSet(sockets, uid, rest)

DisconnectEffect(sockets, c, uid) ==
  IF uid # NoUser /\ uid \in DOMAIN sockets
  THEN LET rest == sockets[uid] \ {c}
       IN IF Cardinality(rest) = 0 THEN MapDelete(sockets, uid)
          ELSE MapSet(sockets, uid, rest)
  ELSE sockets

\* ---- payloads a device may send --------------------------------------------
Payloads(c) ==
  {[content |-> k, type |-> ty, deviceId |-> Hostname(c), deviceName |-> Hostname(c)] :
     k \in 1..NContents, ty \in Types}

\* ids a client may ask to delete: every reading of the clock, and one
\* from before the clock's first reading
ItemIds == {DateNowString(t) : t \in (-1)..MaxClock}

\* ---- a history written by earlier sessions -----------------------------------
\* What k clipboard_update events of one device leave behind, each with a
\* content of its own, at the clock readings -k .. -1.
RECURSIVE Prefill(_, _)
Prefill(j, k) ==
  IF j = 0 THEN <<>>
  ELSE Push(Prefill(j - 1, k),
            ClipboardItem([content |-> NContents + j, type |-> NoType,
                           deviceId |-> "hostA", deviceName |-> "hostA"],
                          j - k - 1))

\* ---- actions ----------------------------------------------------------------
Init ==
  /\ status = [c \in Conns |-> "new"]
  /\ socketUserId = [c \in Conns |-> NoUser]
  /\ userSockets = EmptyMap
  /\ clipboardHistory = EmptyMap
  /\ now = 0
  /\ ties = 0
  /\ event = Served("listen", 0, NoArg, 0, FALSE)
  /\ emitted = <<>>
  /\ device = NoDevices

\* io.on('connection')
Connection(c) ==
  /\ status[c] = "new"
  /\ status' = [status EXCEPT ![c] = "open"]
  /\ event' = Served("connection", c, NoArg, 0, FALSE)
  /\ emitted' = <<>>
  /\ UNCHANGED <<socketUserId, userSockets, clipboardHistory, now, ties>>

\* authenticate that sends the snapshot with broadcastToUserDevices
Authenticate_Broadcast(c, token) ==
  /\ status[c] = "open"
  /\ event' = Served("authenticate", c, token, 0, FALSE)
  /\ LET decoded == jwt_verify(token) IN
     IF decoded.ok
     THEN /\ socketUserId' = [socketUserId EXCEPT ![c] = decoded.userId]
          /\ userSockets' =
               MapSet(userSockets, decoded.userId,
                      (IF decoded.userId \in DOMAIN userSockets
                       THEN userSockets[decoded.userId] ELSE {}) \cup {c})
          /\ emitted' = broadcastToUserDevices(userSockets', decoded.userId, "history",
                             HistoryOf(clipboardHistory, decoded.userId), NoExclude)
          /\ UNCHANGED <<status, clipboardHistory, now, ties>>
     ELSE /\ emitted' = <<Emit(c, "auth_error", "Invalid token")>>
          /\ status' = [status EXCEPT ![c] = "closed"]
          /\ userSockets' = DisconnectEffect(userSockets, c, socketUserId[c])
          /\ UNCHANGED <<socketUserId, clipboardHistory, now, ties>>

\* socket.on('authenticate')
Authenticate(c, token) ==
  /\ status[c] = "open"
  /\ event' = Served("authenticate", c, token, 0, FALSE)
  /\ LET decoded == jwt_verify(token) IN
     IF decoded.ok
     THEN /\ socketUserId' = [socketUserId EXCEPT ![c] = decoded.userId]
          /\ userSockets' =
               MapSet(userSockets, decoded.userId,
                      (IF decoded.userId \in DOMAIN userSockets
                       THEN userSockets[decoded.userId] ELSE {}) \cup {c})
          /\ emitted' = <<Emit(c, "history", HistoryOf(clipboardHistory, decoded.userId))>>
          /\ UNCHANGED <<status, clipboardHistory, now, ties>>
     ELSE /\ emitted' = <<Emit(c, "auth_error", "Invalid token")>>
          /\ status' = [status EXCEPT ![c] = "closed"]
          /\ userSockets' = DisconnectEffect(userSockets, c, socketUserId[c])
          /\ UNCHANGED <<socketUserId, clipboardHistory, now, ties>>

\* clipboard_update that sends the history before the clipboard_sync
ClipboardUpdate_HistoryFirst(c, data, t) ==
  /\ status[c] = "open"
  /\ IF socketUserId[c] = NoUser
     THEN /\ event' = Served("clipboard_update", c, data, 0, FALSE)
          /\ emitted' = <<Emit(c, "error", "Not authenticated")>>
          /\ UNCHANGED <<status, socketUserId, userSockets, clipboardHistory, now, ties>>
     ELSE LET clipboardItem == ClipboardItem(data, t)
              stored == HistoryOf(clipboardHistory, socketUserId[c])
              history == Push(stored, clipboardItem)
          IN /\ event' = Served("clipboard_update", c, data,
                                ExistingIndex(stored, clipboardItem),
                                Overflows(stored, clipboardItem))
             /\ clipboardHistory' = MapSet(clipboardHistory, socketUserId[c], history)
             /\ emitted' =
                  broadcastToUserDevices(userSockets, socketUserId[c],
                                         "history", history, NoExclude)
                  \o broadcastToUserDevices(userSockets, socketUserId[c],
                                            "clipboard_sync", clipboardItem, c)
             /\ now' = t
             /\ ties' = IF t = now THEN ties + 1 ELSE ties
             /\ UNCHANGED <<status, socketUserId, userSockets>>

\* socket.on('clipboard_update')
ClipboardUpdate(c, data, t) ==
  /\ status[c] = "open"
  /\ IF socketUserId[c] = NoUser
     THEN /\ event' = Served("clipboard_update", c, data, 0, FALSE)
          /\ emitted' = <<Emit(c, "error", "Not authenticated")>>
          /\ UNCHANGED <<status, socketUserId, userSockets, clipboardHistory, now, ties>>
     ELSE LET clipboardItem == ClipboardItem(data, t)
              stored == HistoryOf(clipboardHistory, socketUserId[c])
              history == Push(stored, clipboardItem)
          IN /\ event' = Served("clipboard_update", c, data,
                                ExistingIndex(stored, clipboardItem),
                                Overflows(stored, clipboardItem))
             /\ clipboardHistory' = MapSet(clipboardHistory, socketUserId[c], history)
             /\ emitted' =
                  broadcastToUserDevices(userSockets, socketUserId[c],
                                         "clipboard_sync", clipboardItem, c)
                  \o broadcastToUserDevices(userSockets, socketUserId[c],
                                            "history", history, NoExclude)
             /\ now' = t
             /\ ties' = IF t = now THEN ties + 1 ELSE ties
             /\ UNCHANGED <<status, socketUserId, userSockets>>

\* clear_history that empties the whole map: clipboardHistory.clear()
ClearHistory_All(c) ==
  /\ status[c] = "open"
  /\ event' = Served("clear_history", c, NoArg, 0, FALSE)
  /\ IF socketUserId[c] = NoUser
     THEN /\ emitted' = <<Emit(c, "error", "Not authenticated")>>
          /\ UNCHANGED <<status, socketUserId, userSockets, clipboardHistory, now, ties>>
     ELSE /\ clipboardHistory' = EmptyMap
          /\ emitted' = broadcastToUserDevices(userSockets, socketUserId[c],
                                               "history", <<>>, NoExclude)
          /\ UNCHANGED <<status, socketUserId, userSockets, now, ties>>

\* clear_history that passes socket.id as excludeSocketId, as the sync does
ClearHistory_ExcludeSender(c) ==
  /\ status[c] = "open"
  /\ event' = Served("clear_history", c, NoArg, 0, FALSE)
  /\ IF socketUserId[c] = NoUser
     THEN /\ emitted' = <<Emit(c, "error", "Not authenticated")>>
          /\ UNCHANGED <<status, socketUserId, userSockets, clipboardHistory, now, ties>>
     ELSE /\ clipboardHistory' = MapSet(clipboardHistory, socketUserId[c], <<>>)
          /\ emitted' = broadcastToUserDevices(userSockets, socketUserId[c],
                                               "history", <<>>, c)
          /\ UNCHANGED <<status, socketUserId, userSockets, now, ties>>

\* clear_history without the test of socket.userId
ClearHistory_Unchecked(c) ==
  /\ status[c] = "open"
  /\ event' = Served("clear_history", c, NoArg, 0, FALSE)
  /\ clipboardHistory' = MapSet(clipboardHistory, socketUserId[c], <<>>)
  /\ emitted' = broadcastToUserDevices(userSockets, socketUserId[c],
                                       "history", <<>>, NoExclude)
  /\ UNCHANGED <<status, socketUserId, userSockets, now, ties>>

\* socket.on('clear_history')
ClearHistory(c) ==
  /\ status[c] = "open"
  /\ event' = Served("clear_history", c, NoArg, 0, FALSE)
  /\ IF socketUserId[c] = NoUser
     THEN /\ emitted' = <<Emit(c, "error", "Not authenticated")>>
          /\ UNCHANGED <<status, socketUserId, userSockets, clipboardHistory, now, ties>>
     ELSE /\ clipboardHistory' = MapSet(clipboardHistory, socketUserId[c], <<>>)
          /\ emitted' = broadcastToUserDevices(userSockets, socketUserId[c],
                                               "history", <<>>, NoExclude)
          /\ UNCHANGED <<status, socketUserId, userSockets, now, ties>>

\* delete_item that broadcasts its local history where the handler has newHistory
DeleteItem_Stale(c, itemId) ==
  /\ status[c] = "open"
  /\ IF socketUserId[c] = NoUser
     THEN /\ event' = ServedDelete(c, itemId, <<>>, <<>>)
          /\ emitted' = <<Emit(c, "error", "Not authenticated")>>
          /\ UNCHANGED <<status, socketUserId, userSockets, clipboardHistory, now, ties>>
     ELSE LET history == HistoryOf(clipboardHistory, socketUserId[c])
              newHistory == FilterId(history, itemId)
          IN /\ event' = ServedDelete(c, itemId, history, newHistory)
             /\ clipboardHistory' = MapSet(clipboardHistory, socketUserId[c], newHistory)
             /\ emitted' = broadcastToUserDevices(userSockets, socketUserId[c],
                                                  "history", history, NoExclude)
             /\ UNCHANGED <<status, socketUserId, userSockets, now, ties>>

\* socket.on('delete_item')
DeleteItem(c, itemId) ==
  /\ status[c] = "open"
  /\ IF socketUserId[c] = NoUser
     THEN /\ event' = ServedDelete(c, itemId, <<>>, <<>>)
          /\ emitted' = <<Emit(c, "error", "Not authenticated")>>
          /\ UNCHANGED <<status, socketUserId, userSockets, clipboardHistory, now, ties>>
     ELSE LET history == HistoryOf(clipboardHistory, socketUserId[c])
              newHistory == FilterId(history, itemId)
          IN /\ event' = ServedDelete(c, itemId, history, newHistory)
             /\ clipboardHistory' = MapSet(clipboardHistory, socketUserId[c], newHistory)
             /\ emitted' = broadcastToUserDevices(userSockets, socketUserId[c],
                                                  "history", newHistory, NoExclude)
             /\ UNCHANGED <<status, socketUserId, userSockets, now, ties>>

\* socket.on('disconnect')
Disconnect(c) ==
  /\ status[c] = "open"
  /\ event' = Served("disconnect", c, NoArg, 0, FALSE)
  /\ status' = [status EXCEPT ![c] = "closed"]
  /\ userSockets' = DisconnectEffect(userSockets, c, socketUserId[c])
  /\ emitted' = <<>>
  /\ UNCHANGED <<socketUserId, clipboardHistory, now, ties>>

\* the hub with clients that may send any event at any time; the devices
\* behind the connections are left out
Next ==
  \/ \E c \in Conns : Connection(c) /\ UNCHANGED device
  \/ \E c \in Conns, token \in Tokens : Authenticate(c, token) /\ UNCHANGED device
  \/ \E c \in Conns, t \in {now, now + 1} :
       /\ t <= MaxClock
       /\ (t = now => ties < MaxTies)
       /\ \E data \in Payloads(c) : ClipboardUpdate(c, data, t)
       /\ UNCHANGED device
  \/ \E c \in Conns : ClearHistory(c) /\ UNCHANGED device
  \/ \E c \in Conns, itemId \in ItemIds : DeleteItem(c, itemId) /\ UNCHANGED device
  \/ \E c \in Conns : Disconnect(c) /\ UNCHANGED device

Spec == Init /\ [][Next]_vars

\* The hub when user 1 may already have MAX_HISTORY - 1 items on record,
\* written by sessions that have since disconnected.
InitFull ==
  /\ status = [c \in Conns |-> "new"]
  /\ socketUserId = [c \in Conns |-> NoUser]
  /\ userSockets = EmptyMap
  /\ \E k \in {0, MAX_HISTORY - 1} :
       clipboardHistory = (IF k = 0 THEN EmptyMap
                           ELSE MapSet(EmptyMap, 1, Prefill(k, k)))
  /\ now = 0
  /\ ties = 0
  /\ event = Served("listen", 0, NoArg, 0, FALSE)
  /\ emitted = <<>>
  /\ device = NoDevices

SpecFull == InitFull /\ [][Next]_vars

\* ---- the desktop client (src/renderer.js) --------------------------------------
\* the devices before login: nothing seen, nothing on the clipboard, nothing sent
DeviceInit ==
  [lastClipboardContent |-> [d \in Conns |-> NoText],
   clipboard |-> [d \in Conns |-> NoText],
   outbox |-> [d \in Conns |-> <<>>],
   inbox |-> [d \in Conns |-> <<>>],
   copies |-> 0,
   updates |-> 0]

\* isAuthenticated: set at login, which is followed by connectSocket
isAuthenticated(d) == status[d] # "new"

\* socket && socket.connected
Connected(d) == status[d] = "open"

\* a client step: no hub handler runs, nothing of the hub changes
ClientStep(op, d, arg) ==
  /\ event' = Served(op, d, arg, 0, FALSE)
  /\ emitted' = <<>>
  /\ UNCHANGED <<status, socketUserId, userSockets, clipboardHistory, now, ties>>

\* the user copies a text on the device
LocalCopy(d, text) ==
  /\ device.copies < MaxCopies
  /\ device' = [device EXCEPT !.clipboard[d] = text, !.copies = @ + 1]
  /\ ClientStep("copy", d, text)

\* one tick of the setInterval of startClipboardMonitoring
Poll(d) ==
  /\ device.updates <= MaxCopies
  /\ LET currentContent == device.clipboard[d] IN
     IF ~isAuthenticated(d) THEN UNCHANGED device
     ELSE IF currentContent # NoText /\ currentContent # device.lastClipboardContent[d]
     THEN IF Connected(d)
          THEN device' = [device EXCEPT
                 !.lastClipboardContent[d] = currentContent,
                 !.outbox[d] = Append(@, [content |-> currentContent, type |-> "text",
                                          deviceId |-> Hostname(d),
                                          deviceName |-> Hostname(d)]),
                 !.updates = @ + 1]
          ELSE device' = [device EXCEPT !.lastClipboardContent[d] = currentContent]
     ELSE UNCHANGED device
  /\ ClientStep("poll", d, device.clipboard[d])

\* clipboard_sync handler that does not record the content as seen
ApplySync_NoRecord(d) ==
  /\ Connected(d)
  /\ device.inbox[d] # <<>>
  /\ LET data == Head(device.inbox[d]) IN
     /\ device' = [device EXCEPT
          !.clipboard[d] = data.content,
          !.inbox[d] = Tail(@)]
     /\ ClientStep("clipboard_sync", d, data.content)

\* socket.on('clipboard_sync')
ApplySync(d) ==
  /\ Connected(d)
  /\ device.inbox[d] # <<>>
  /\ LET data == Head(device.inbox[d]) IN
     /\ device' = [device EXCEPT
          !.lastClipboardContent[d] = data.content,
          !.clipboard[d] = data.content,
          !.inbox[d] = Tail(@)]
     /\ ClientStep("clipboard_sync", d, data.content)

\* the clipboard_sync items among the emit calls out that reach connection d
Received(out, d) ==
  LET syncs == SelectSeq(out, LAMBDA m : m.event = "clipboard_sync" /\ d \in m.to)
  IN IF Connected(d) THEN [i \in DOMAIN syncs |-> syncs[i].data] ELSE <<>>

\* the hub serves the oldest clipboard_update a device has emitted, and what it
\* broadcasts as clipboard_sync is on its way to the devices
ServeUpdate(c, t) ==
  /\ device.outbox[c] # <<>>
  /\ ClipboardUpdate(c, Head(device.outbox[c]), t)
  /\ device' = [device EXCEPT
       !.outbox[c] = Tail(@),
       !.inbox = [d \in Conns |-> @[d] \o Received(emitted', d)]]

\* the hub with a desktop client behind every connection
NextClient ==
  \/ \E c \in Conns : Connection(c) /\ UNCHANGED device
  \/ \E c \in Conns, token \in Tokens : Authenticate(c, token) /\ UNCHANGED device
  \/ \E c \in Conns, t \in {now, now + 1} :
       /\ t <= MaxClock
       /\ (t = now => ties < MaxTies)
       /\ ServeUpdate(c, t)
  \/ \E c \in Conns : Disconnect(c) /\ UNCHANGED device
  \/ \E d \in Conns, text \in Texts : LocalCopy(d, text)
  \/ \E d \in Conns : Poll(d)
  \/ \E d \in Conns : ApplySync(d)

InitClient ==
  /\ status = [c \in Conns |-> "new"]
  /\ socketUserId = [c \in Conns |-> NoUser]
  /\ userSockets = EmptyMap
  /\ clipboardHistory = EmptyMap
  /\ now = 0
  /\ ties = 0
  /\ event = Served("listen", 0, NoArg, 0, FALSE)
  /\ emitted = <<>>
  /\ device = DeviceInit

SpecClient == InitClient /\ [][NextClient]_vars

\* ---- vocabulary of the properties ---------------------------------------------
\* the emit calls of out that carry event ev and are addressed to connection c
Addressed(out, c, ev) ==
  {i \in DOMAIN out : out[i].event = ev /\ c \in out[i].to}

\* the users in whose set of the registry the connection id is
Registered(sockets, c) == {u \in DOMAIN sockets : c \in sockets[u]}

\* the type an update counts as
TypeOrText(ty) == IF ty = NoType THEN "text" ELSE ty

\* some entry of the history has the pair (content, type)
HasPair(history, content, type) ==
  \E i \in DOMAIN history :
    history[i].content = content /\ history[i].type = type

Ids(history) == {history[i].id : i \in DOMAIN history}

\* the step is the handler of op, run for a connection whose socket.userId is set
Accepted(op) ==
  /\ event'.op = op
  /\ socketUserId[event'.conn] # NoUser

\* the step is a handler that needs a user, run for a connection without one
Refused ==
  /\ event'.op \in {"clipboard_update", "clear_history", "delete_item"}
  /\ socketUserId[event'.conn] = NoUser

\* ---- C1 ------------------------------------------------------------------------
C1_Lengths ==
  \A u \in DOMAIN clipboardHistory : Len(clipboardHistory[u]) <= MAX_HISTORY

C1_DropsOldest ==
  LET c == event'.conn
      u == socketUserId[c]
      old == HistoryOf(clipboardHistory, u)
      new == HistoryOf(clipboardHistory', u)
  IN (/\ Accepted("clipboard_update")
      /\ Len(old) = MAX_HISTORY
      /\ ~HasPair(old, event'.arg.content, TypeOrText(event'.arg.type)))
     => /\ Len(new) = MAX_HISTORY
        /\ new[1].content = event'.arg.content
        /\ SubSeq(new, 2, MAX_HISTORY) = SubSeq(old, 1, MAX_HISTORY - 1)

\* C1: no user's history is ever longer than MAX_HISTORY, and a
\* clipboard_update with a new (content, type) that arrives at a history of
\* MAX_HISTORY entries puts the new item first and drops exactly the last entry.
C1_HistoryBounded == []C1_Lengths /\ [][C1_DropsOldest]_vars

\* a clipboard_update took the pop() branch for a pair the history did not have
C1_Witness ==
  /\ event.op = "clipboard_update"
  /\ event.popped
  /\ event.existingIndex = 0
  /\ Len(HistoryOf(clipboardHistory, socketUserId[event.conn])) = MAX_HISTORY

\* ---- C2 ------------------------------------------------------------------------
\* C2: no history holds two entries with the same (content, type), and no
\* entry is stored without a type: an update without one is stored as 'text'.
C2_NoDuplicatePair ==
  \A u \in DOMAIN clipboardHistory :
    LET h == clipboardHistory[u] IN
    /\ \A i \in DOMAIN h : h[i].type # NoType
    /\ \A i, j \in DOMAIN h :
         (h[i].content = h[j].content /\ h[i].type = h[j].type) => i = j

\* an update without a type met an entry with its content, next to another entry
C2_Witness ==
  /\ event.op = "clipboard_update"
  /\ event.arg.type = NoType
  /\ event.existingIndex # 0
  /\ LET h == HistoryOf(clipboardHistory, socketUserId[event.conn]) IN
     /\ Len(h) >= 2
     /\ h[1].type = "text"

\* ---- C3 ------------------------------------------------------------------------
C3_FanOut ==
  LET c == event'.conn
      u == socketUserId[c]
      new == HistoryOf(clipboardHistory', u)
  IN Accepted("clipboard_update") =>
     /\ u \in DOMAIN userSockets
     /\ c \in userSockets[u]
     /\ \A d \in userSockets[u] \ {c} :
          /\ Cardinality(Addressed(emitted', d, "clipboard_sync")) = 1
          /\ \A i \in Addressed(emitted', d, "clipboard_sync") :
               /\ emitted'[i].data = new[1]
               /\ emitted'[i].data.content = event'.arg.content
     /\ \A d \in userSockets[u] :
          /\ Cardinality(Addressed(emitted', d, "history")) = 1
          /\ \A i \in Addressed(emitted', d, "history") : emitted'[i].data = new
     /\ Addressed(emitted', c, "clipboard_sync") = {}

\* C3: a clipboard_update of an authenticated connection A of user U sends one
\* clipboard_sync with the new item to every other connection registered for U,
\* one history with the updated history to every connection registered for U,
\* A included, and no clipboard_sync to A.
C3_SyncToOthersHistoryToAll == [][C3_FanOut]_vars

\* an update of a user with two live registered connections was fanned out
C3_Witness ==
  /\ event.op = "clipboard_update"
  /\ socketUserId[event.conn] # NoUser
  /\ Len(emitted) = 2
  /\ emitted[1].event = "clipboard_sync" /\ emitted[1].to # {}
  /\ emitted[2].event = "history" /\ Cardinality(emitted[2].to) >= 2
  /\ \A d \in emitted[2].to : status[d] = "open"

\* ---- C4 ------------------------------------------------------------------------
C4_Refusal ==
  LET c == event'.conn IN
  Refused =>
    /\ emitted' = <<[to |-> {c}, event |-> "error", data |-> "Not authenticated"]>>
    /\ clipboardHistory' = clipboardHistory
    /\ userSockets' = userSockets
    /\ status' = status /\ status'[c] = "open"
    /\ socketUserId' = socketUserId

C4_AuthenticateStillWorks ==
  LET c == event'.conn IN
  (/\ event'.op = "authenticate"
   /\ event'.arg.signed
   /\ socketUserId[c] = NoUser)
  => /\ socketUserId'[c] = event'.arg.userId
     /\ event'.arg.userId \in Registered(userSockets', c)
     /\ status'[c] = "open"

\* C4: clipboard_update, clear_history or delete_item of a connection that has
\* no user gets that connection one error event and nothing else: no history
\* or registry change, no other emit, the connection open and without a user;
\* and a valid authenticate of a connection without a user succeeds.
C4_UnauthenticatedRefused == [][C4_Refusal /\ C4_AuthenticateStillWorks]_vars

\* an action was refused while some user had a history and a registered connection
C4_Witness ==
  /\ event.op \in {"clipboard_update", "clear_history", "delete_item"}
  /\ socketUserId[event.conn] = NoUser
  /\ status[event.conn] = "open"
  /\ \E u \in DOMAIN clipboardHistory : Len(clipboardHistory[u]) >= 1
  /\ DOMAIN userSockets # {}

\* ---- C5 ------------------------------------------------------------------------
\* C5: a connection id is in the registry set of at most one user.
C5_OneSetPerConnection ==
  \A c \in Conns : Cardinality(Registered(userSockets, c)) <= 1

\* ---- C6 ------------------------------------------------------------------------
\* C6: a connection that has disconnected is in no user's registry set, and no
\* clipboard_sync or history emit is addressed to it.
C6_DisconnectedUnregistered ==
  \A c \in Conns :
    status[c] = "closed" =>
      /\ Registered(userSockets, c) = {}
      /\ Addressed(emitted, c, "clipboard_sync") = {}
      /\ Addressed(emitted, c, "history") = {}

\* ---- C7 ------------------------------------------------------------------------
C7_MoveToFront ==
  LET c == event'.conn
      u == socketUserId[c]
      data == event'.arg
      old == HistoryOf(clipboardHistory, u)
      new == HistoryOf(clipboardHistory', u)
  IN (/\ Accepted("clipboard_update")
      /\ HasPair(old, data.content, TypeOrText(data.type)))
     => /\ Len(new) = Len(old)
        /\ new[1] = [id |-> ToString(now'),
                     content |-> data.content,
                     type |-> TypeOrText(data.type),
                     timestamp |-> "T" \o ToString(now'),
                     deviceId |-> data.deviceId,
                     deviceName |-> data.deviceName]
        /\ now' >= now
        /\ ~HasPair(Tail(new), data.content, TypeOrText(data.type))
        /\ \E k \in DOMAIN old :
             /\ old[k].content = data.content
             /\ old[k].type = TypeOrText(data.type)
             /\ \A i \in 1..(Len(old) - 1) :
                  new[i + 1] = IF i < k THEN old[i] ELSE old[i + 1]

\* C7: a clipboard_update whose (content, type) an entry of the history has
\* leaves the length as it was, puts first the item built from this update (id
\* and timestamp of the clock reading of this update, device of its payload),
\* removes the earlier entry with the pair and keeps the others in their order.
C7_DuplicateMovesToFront == [][C7_MoveToFront]_vars

\* a duplicate was found behind another entry of a full history, and entries
\* on both sides of it stayed
C7_Witness ==
  /\ event.op = "clipboard_update"
  /\ event.existingIndex >= 2
  /\ LET h == HistoryOf(clipboardHistory, socketUserId[event.conn]) IN
     /\ Len(h) = MAX_HISTORY
     /\ event.existingIndex < Len(h)

\* ---- C8 ------------------------------------------------------------------------
C8_Rejection ==
  LET c == event'.conn IN
  (event'.op = "authenticate" /\ ~event'.arg.signed)
  => /\ emitted' = <<[to |-> {c}, event |-> "auth_error", data |-> "Invalid token"]>>
     /\ status'[c] = "closed"
     /\ Registered(userSockets', c) = {}
     /\ clipboardHistory' = clipboardHistory

\* C8: an authenticate whose credential fails verification gets the connection
\* one auth_error and nothing else, closes it, leaves it in no registry set and
\* changes no history.
C8_FailedAuthenticateCloses == [][C8_Rejection]_vars

\* ---- C9 ------------------------------------------------------------------------
C9_Snapshot ==
  LET c == event'.conn
      u == event'.arg.userId
  IN (event'.op = "authenticate" /\ event'.arg.signed)
     => /\ u \in DOMAIN userSockets'
        /\ c \in userSockets'[u]
        /\ emitted' = <<[to |-> {c}, event |-> "history",
                         data |-> IF u \in DOMAIN clipboardHistory
                                  THEN clipboardHistory[u] ELSE <<>>]>>
        /\ clipboardHistory' = clipboardHistory

\* C9: a successful authenticate for user U on connection C puts C in U's
\* registry set and emits one history event, to C alone, with U's history
\* (empty if U has none), and changes no history.
C9_AuthenticateSendsSnapshot == [][C9_Snapshot]_vars

\* a connection authenticated for a user who has entries and another live
\* registered connection
C9_Witness ==
  /\ event.op = "authenticate"
  /\ event.arg.signed
  /\ socketUserId[event.conn] = event.arg.userId
  /\ Len(HistoryOf(clipboardHistory, event.arg.userId)) >= 1
  /\ \E d \in userSockets[event.arg.userId] : d # event.conn /\ status[d] = "open"
  /\ emitted[1].to = {event.conn}

\* ---- C10 -----------------------------------------------------------------------
C10_NoOp ==
  LET c == event'.conn
      u == socketUserId[c]
      old == HistoryOf(clipboardHistory, u)
  IN (/\ Accepted("delete_item")
      /\ event'.arg \notin Ids(old))
     => /\ HistoryOf(clipboardHistory', u) = old
        /\ \A i \in DOMAIN emitted' : emitted'[i].event # "error"
        /\ emitted' = <<[to |-> userSockets[u], event |-> "history", data |-> old]>>

\* C10: delete_item of an authenticated connection with an id that no entry of
\* its user's history has leaves the history as it was, emits no error and
\* still emits the history to the user's registered connections.
C10_DeleteAbsentId == [][C10_NoOp]_vars

\* an id the clock has not read yet was asked to be deleted from a history of
\* several entries
C10_Witness ==
  /\ event.op = "delete_item"
  /\ socketUserId[event.conn] # NoUser
  /\ \E t \in (now + 1)..MaxClock : event.arg = ToString(t)
  /\ Len(HistoryOf(clipboardHistory, socketUserId[event.conn])) >= 2
  /\ Len(emitted) = 1
  /\ event.conn \in emitted[1].to

\* ---- C11 -----------------------------------------------------------------------
C11_Cleared ==
  LET c == event'.conn
      u == socketUserId[c]
  IN Accepted("clear_history") =>
     /\ u \in DOMAIN clipboardHistory'
     /\ clipboardHistory'[u] = <<>>
     /\ u \in DOMAIN userSockets
     /\ c \in userSockets[u]
     /\ \A d \in userSockets[u] :
          /\ Cardinality(Addressed(emitted', d, "history")) = 1
          /\ \A i \in Addressed(emitted', d, "history") : emitted'[i].data = <<>>

\* the authenticate served right after an accepted clear_history, for the
\* user whose history was cleared, carries an empty snapshot
C11_SnapshotAfterClear ==
  (/\ event.op = "clear_history"
   /\ socketUserId[event.conn] # NoUser
   /\ event'.op = "authenticate"
   /\ event'.arg.signed
   /\ event'.arg.userId = socketUserId[event.conn])
  => \A i \in DOMAIN emitted' :
       emitted'[i].event = "history" => emitted'[i].data = <<>>

\* C11: clear_history of an authenticated connection of user U leaves U's
\* stored history empty, so that the snapshot of an authenticate for U that
\* follows is empty, and emits one empty history event to every connection
\* registered for U, the sender included.
C11_ClearEmptiesAndBroadcasts == [][C11_Cleared /\ C11_SnapshotAfterClear]_vars

\* a clear_history reached two live connections of a user after updates that
\* all went to that user's history
C11_Witness ==
  /\ event.op = "clear_history"
  /\ socketUserId[event.conn] # NoUser
  /\ now >= 1
  /\ DOMAIN clipboardHistory = {socketUserId[event.conn]}
  /\ Len(emitted) = 1
  /\ event.conn \in emitted[1].to
  /\ Cardinality(emitted[1].to) >= 2
  /\ \A d \in emitted[1].to : status[d] = "open"

\* ---- C12 -----------------------------------------------------------------------
C12_Removed ==
  LET c == event'.conn
      u == socketUserId[c]
      itemId == event'.arg
      old == HistoryOf(clipboardHistory, u)
      new == HistoryOf(clipboardHistory', u)
  IN Accepted("delete_item") =>
     /\ new = SelectSeq(old, LAMBDA item : item.id # itemId)
     /\ itemId \notin Ids(new)
     /\ u \in DOMAIN userSockets
     /\ c \in userSockets[u]
     /\ \A d \in userSockets[u] :
          /\ Cardinality(Addressed(emitted', d, "history")) = 1
          /\ \A i \in Addressed(emitted', d, "history") : emitted'[i].data = new

\* C12: delete_item(itemId) of an authenticated connection of user U leaves
\* U's history without the entries whose id is itemId, the other entries all
\* kept and in their order, and emits one history event with the result to
\* every connection registered for U, the sender included.
C12_DeleteRemovesItem == [][C12_Removed]_vars

\* the newest entry of the earlier sessions was deleted from between an
\* entry older and an entry newer than it
C12_Witness ==
  /\ event.op = "delete_item"
  /\ socketUserId[event.conn] # NoUser
  /\ event.removed = 1
  /\ event.arg = ToString(-1)
  /\ LET h == HistoryOf(clipboardHistory, socketUserId[event.conn]) IN
     /\ Len(h) >= 2
     /\ h[1].id # ToString(-2)
     /\ \E j \in DOMAIN h : h[j].id = ToString(-2)
  /\ Len(emitted) = 1
  /\ event.conn \in emitted[1].to

\* ---- C13 -----------------------------------------------------------------------
\* C13: no two entries of a history have the same id.
C13_UniqueIds ==
  \A u \in DOMAIN clipboardHistory :
    \A i, j \in DOMAIN clipboardHistory[u] :
      clipboardHistory[u][i].id = clipboardHistory[u][j].id => i = j

\* ---- C14 -----------------------------------------------------------------------
\* the (content, type) pairs of a history, in order
Pairs(history) ==
  [i \in DOMAIN history |-> <<history[i].content, history[i].type>>]

\* the step serves again, for the same connection and with the same payload,
\* the event that was served last, and the connection has a user
Retried(op) ==
  /\ event.op = op
  /\ event'.op = op
  /\ event'.conn = event.conn
  /\ event'.arg = event.arg
  /\ socketUserId[event.conn] # NoUser

C14_Retry ==
  LET u == socketUserId[event.conn]
      old == HistoryOf(clipboardHistory, u)
      new == HistoryOf(clipboardHistory', u)
  IN /\ Retried("clipboard_update") => Pairs(new) = Pairs(old)
     /\ Retried("clear_history") => new = old
     /\ Retried("delete_item") => new = old

\* C14: a clipboard_update served twice in a row leaves the same sequence of
\* (content, type) pairs as served once, and a clear_history or a delete_item
\* served twice in a row leaves the same history as served once.
C14_RetryIdempotent == [][C14_Retry]_vars

\* an update found its pair at the head of a history of several entries, where
\* the update before it had put it
C14_Witness ==
  /\ event.op = "clipboard_update"
  /\ socketUserId[event.conn] # NoUser
  /\ event.existingIndex = 1
  /\ Len(HistoryOf(clipboardHistory, socketUserId[event.conn])) >= 2
  /\ DOMAIN clipboardHistory = {socketUserId[event.conn]}

\* ---- C15 -----------------------------------------------------------------------
\* C15: once a connection has a user, its socket.userId does not change.
C15_IdentitySetOnce ==
  [][\A c \in Conns :
       socketUserId[c] # NoUser => socketUserId'[c] = socketUserId[c]]_vars

\* ---- C16 -----------------------------------------------------------------------
C16_NoEmptySet == \A u \in DOMAIN userSockets : userSockets[u] # {}

\* the disconnect handler ran for a connection whose id was the only one in
\* the set of its socket.userId
C16_LastLeaves ==
  LET c == event'.conn
      u == socketUserId[c]
  IN (/\ status[c] = "open"
      /\ status'[c] = "closed"
      /\ u \in DOMAIN userSockets
      /\ userSockets[u] = {c})
     => u \notin DOMAIN userSockets'

\* C16: no set of the registry is empty, and the key of a user is removed when
\* the last connection id of its set disconnects.
C16_NoDanglingEmptySet == []C16_NoEmptySet /\ [][C16_LastLeaves]_vars

\* a disconnect removed the key of the connection's user while another user
\* stayed registered
C16_Witness ==
  /\ event.op = "disconnect"
  /\ socketUserId[event.conn] # NoUser
  /\ socketUserId[event.conn] \notin DOMAIN userSockets
  /\ DOMAIN userSockets # {}

\* ---- C17 -----------------------------------------------------------------------
C17_Frame ==
  (event'.op = "disconnect" /\ socketUserId[event'.conn] = NoUser)
  => /\ userSockets' = userSockets
     /\ clipboardHistory' = clipboardHistory
     /\ emitted' = <<>>

\* C17: the disconnect of a connection that has no user changes neither the
\* registry nor any history and emits nothing.
C17_DisconnectBeforeAuth == [][C17_Frame]_vars

\* a connection without a user disconnected while a user was registered and
\* had a history
C17_Witness ==
  /\ event.op = "disconnect"
  /\ socketUserId[event.conn] = NoUser
  /\ status[event.conn] = "closed"
  /\ DOMAIN userSockets # {}
  /\ \E u \in DOMAIN clipboardHistory : Len(clipboardHistory[u]) >= 1

\* ---- C19 -----------------------------------------------------------------------
C19_Order ==
  LET c == event'.conn
      u == socketUserId[c]
  IN Accepted("clipboard_update") =>
     \A d \in userSockets[u] \ {c} :
       /\ Addressed(emitted', d, "clipboard_sync") # {}
       /\ Addressed(emitted', d, "history") # {}
       /\ \A i \in Addressed(emitted', d, "clipboard_sync") :
            \A j \in Addressed(emitted', d, "history") :
              /\ i < j
              /\ Len(emitted'[j].data) >= 1
              /\ emitted'[j].data[1] = emitted'[i].data

\* C19: for one clipboard_update, every connection of the user other than the
\* sender is sent the clipboard_sync before the history, and the first entry
\* of that history is the item of the clipboard_sync.
C19_SyncBeforeHistory == [][C19_Order]_vars

\* a live connection other than the sender was sent the item and then a
\* history of several entries headed by it
C19_Witness ==
  /\ event.op = "clipboard_update"
  /\ socketUserId[event.conn] # NoUser
  /\ \E d \in Conns \ {event.conn} :
       /\ status[d] = "open"
       /\ Addressed(emitted, d, "clipboard_sync") = {1}
       /\ Addressed(emitted, d, "history") = {2}
  /\ Len(emitted[2].data) >= 2
  /\ emitted[2].data[1] = emitted[1].data

\* ---- C20 -----------------------------------------------------------------------
C20_Frame ==
  LET u == socketUserId[event'.conn] IN
  (\/ Accepted("clipboard_update")
   \/ Accepted("clear_history")
   \/ Accepted("delete_item"))
  => \A v \in Users \ {u} :
       /\ (v \in DOMAIN clipboardHistory') = (v \in DOMAIN clipboardHistory)
       /\ HistoryOf(clipboardHistory', v) = HistoryOf(clipboardHistory, v)

\* C20: a clipboard_update, clear_history or delete_item served for a
\* connection whose user is U leaves the stored history of every other user
\* as it was.
C20_OtherUsersUntouched == [][C20_Frame]_vars

\* a history of one user changed while another user had entries
C20_Witness ==
  /\ event.op \in {"clipboard_update", "clear_history", "delete_item"}
  /\ socketUserId[event.conn] # NoUser
  /\ (event.op = "delete_item" => event.removed >= 1)
  /\ \E v \in DOMAIN clipboardHistory :
       /\ v # socketUserId[event.conn]
       /\ Len(clipboardHistory[v]) >= 1

\* ---- C18 -----------------------------------------------------------------------
\* the clock readings that the ids of entries can be
Readings == (0 - MAX_HISTORY)..MaxClock

\* history less its entry at index (none when the index is 0)
Without(history, index) ==
  IF index = 0 THEN history
  ELSE [k \in 1..(Len(history) - 1) |->
          IF k < index THEN history[k] ELSE history[k + 1]]

\* the clock reading that an id is the string of
ReadingOf(id) == CHOOSE t \in Readings : DateNowString(t) = id

\* the id of every entry, read as a clock reading, is no earlier than that of
\* the entry behind it
C18_Recency ==
  \A u \in DOMAIN clipboardHistory :
    LET h == clipboardHistory[u]
        reading == [i \in DOMAIN h |-> ReadingOf(h[i].id)]
    IN \A i \in 1..(Len(h) - 1) : reading[i] >= reading[i + 1]

\* the item a clipboard_update created is the first entry, and behind it are
\* entries the history had before, in the order they had
C18_NewFirst ==
  LET c == event'.conn
      u == socketUserId[c]
      old == HistoryOf(clipboardHistory, u)
      new == HistoryOf(clipboardHistory', u)
  IN Accepted("clipboard_update") =>
     /\ Len(new) >= 1
     /\ new[1].content = event'.arg.content
     /\ new[1].type = TypeOrText(event'.arg.type)
     /\ new[1].id = DateNowString(now')
     /\ \E e \in 0..Len(old) :
          Tail(new) = SubSeq(Without(old, e), 1, Len(new) - 1)

\* no step but a clipboard_update brings an entry in front of another one
C18_OrderKept ==
  \A u \in DOMAIN clipboardHistory' :
    LET old == HistoryOf(clipboardHistory, u)
        new == clipboardHistory'[u]
    IN event'.op # "clipboard_update" =>
       \/ new = old
       \/ new = <<>>
       \/ \E id \in {old[i].id : i \in DOMAIN old} :
            new = SelectSeq(old, LAMBDA item : item.id # id)

\* C18: in every history an entry at a smaller index was created by a later
\* clipboard_update than an entry at a larger index, and right after a
\* clipboard_update the item it created is the first entry.
C18_NewestFirst ==
  /\ []C18_Recency
  /\ [][C18_NewFirst /\ C18_OrderKept]_vars

\* an update moved its pair from behind a newer entry to the front of a full
\* history, and entries of the earlier sessions follow
C18_Witness ==
  /\ event.op = "clipboard_update"
  /\ socketUserId[event.conn] # NoUser
  /\ event.existingIndex >= 2
  /\ LET u == socketUserId[event.conn] IN
     /\ Len(clipboardHistory[u]) = MAX_HISTORY
     /\ clipboardHistory[u][1].id = DateNowString(now)
     /\ clipboardHistory[u][2].id \in {DateNowString(t) : t \in 0..MaxClock}
     /\ clipboardHistory[u][3].id = DateNowString(0 - 1)

\* ---- C21 -----------------------------------------------------------------------
\* the connections an emit call reaches: those it is addressed to that are open
Delivered(out, live) == {c \in out.to : live[c] = "open"}

\* C21: a clipboard_sync or history event that a handler run for a connection of
\* user U emits reaches only open connections whose socket.userId is U.
C21_DeliveryIsolation ==
  [][\A k \in DOMAIN emitted' :
       emitted'[k].event \in {"clipboard_sync", "history"} =>
         \A c \in Delivered(emitted'[k], status') :
           socketUserId'[c] = socketUserId'[event'.conn]]_vars

\* ---- C22 -----------------------------------------------------------------------
\* connection c is open and every verified authenticate it sent was for user u:
\* an open connection stays in the set of every user it authenticated as, so
\* this is c having socket.userId u and being in no set but u's
OnlyEver(live, uid, sockets, c, u) ==
  /\ live[c] = "open"
  /\ uid[c] = u
  /\ Registered(sockets, c) = {u}

\* the payload of the last history event of out addressed to c
LastHistory(out, c) ==
  LET sent == Addressed(out, c, "history")
  IN out[CHOOSE i \in sent : \A j \in sent : j <= i].data

\* when the handler that has just finished sent a history event to such a
\* connection, the last one carries the stored history of its user
C22_LastSent ==
  \A c \in Conns, u \in Users :
    (OnlyEver(status, socketUserId, userSockets, c, u)
       /\ Addressed(emitted, c, "history") # {}) =>
      LastHistory(emitted, c) = HistoryOf(clipboardHistory, u)

\* a handler that sends no history event to such a connection leaves the stored
\* history of its user as it was, and the connection was such a one before
C22_Kept ==
  \A c \in Conns, u \in Users :
    (OnlyEver(status', socketUserId', userSockets', c, u)
       /\ Addressed(emitted', c, "history") = {}) =>
      /\ OnlyEver(status, socketUserId, userSockets, c, u)
      /\ HistoryOf(clipboardHistory', u) = HistoryOf(clipboardHistory, u)

\* C22: for an open connection all of whose verified authenticate events were
\* for user U, after every handler the payload of the last history event sent to
\* it is the stored history of U.
C22_ViewConsistent == []C22_LastSent /\ [][C22_Kept]_vars

\* two open connections of one user, neither ever of another user; one of them
\* deleted an entry and the other was sent the history that is left
C22_Witness ==
  /\ event.op = "delete_item"
  /\ event.removed = 1
  /\ \E c \in Conns \ {event.conn}, u \in Users :
       /\ OnlyEver(status, socketUserId, userSockets, c, u)
       /\ OnlyEver(status, socketUserId, userSockets, event.conn, u)
       /\ Addressed(emitted, c, "history") # {}
       /\ LastHistory(emitted, c) = clipboardHistory[u]
       /\ Len(clipboardHistory[u]) >= 1

\* ---- C23 -----------------------------------------------------------------------
\* every monitor has seen what is on its device's clipboard and no event is on
\* its way
Settled ==
  \A d \in Conns :
    /\ device.clipboard[d] \in {NoText, device.lastClipboardContent[d]}
    /\ device.outbox[d] = <<>>
    /\ device.inbox[d] = <<>>

\* C23 as stated: one local copy causes exactly one clipboard_update in the
\* whole system, so when all is settled there are as many clipboard_update
\* events as local copies.
C23_ExactlyOne == Settled => device.updates = device.copies

\* the devices have emitted no more clipboard_update events than there were
\* local copies
C23_AtMostOne == device.updates <= device.copies

\* applying a clipboard_sync records its content as seen, writes it to the
\* clipboard and emits nothing
C23_SyncRecorded ==
  LET d == event'.conn IN
  event'.op = "clipboard_sync" =>
    /\ device'.lastClipboardContent[d] = event'.arg
    /\ device'.clipboard[d] = event'.arg
    /\ device'.updates = device.updates
    /\ device'.outbox = device.outbox

\* the poll of a device that follows its applying a clipboard_sync emits nothing
C23_NextPollSilent ==
  (event.op = "clipboard_sync" /\ event'.op = "poll" /\ event'.conn = event.conn) =>
    /\ device'.updates = device.updates
    /\ device'.outbox = device.outbox

\* a poll emits one clipboard_update, with the text on the clipboard, when the
\* device is logged in and connected and the text is not empty and not the one
\* seen last; any other poll emits none
C23_OnePerSeenCopy ==
  LET d == event'.conn
      text == device.clipboard[d]
  IN event'.op = "poll" =>
       IF /\ status[d] = "open"
          /\ text # NoText
          /\ text # device.lastClipboardContent[d]
       THEN /\ device'.updates = device.updates + 1
            /\ Len(device'.outbox[d]) = Len(device.outbox[d]) + 1
            /\ device'.outbox[d][Len(device'.outbox[d])].content = text
            /\ \A e \in Conns \ {d} : device'.outbox[e] = device.outbox[e]
       ELSE /\ device'.updates = device.updates
            /\ device'.outbox = device.outbox

\* C23: a device that applies a clipboard_sync records the content as seen
\* before it writes it to the clipboard, so its next poll emits no
\* clipboard_update for it; one local copy causes at most one clipboard_update in
\* the whole system, and exactly one when a poll of a logged-in, connected
\* device finds it on the clipboard as a text it has not seen last.
C23_NoEchoLoop ==
  /\ []C23_AtMostOne
  /\ [][C23_SyncRecorded /\ C23_NextPollSilent /\ C23_OnePerSeenCopy]_vars

\* one text was copied once on one device, the hub stored it and sent it on, the
\* other device applied it, and that device's poll has run: one clipboard_update
C23_Witness ==
  /\ event.op = "poll"
  /\ Settled
  /\ device.copies = 1
  /\ device.updates = 1
  /\ \E d \in Conns \ {event.conn} :
       /\ device.clipboard[d] # NoText
       /\ device.clipboard[event.conn] = device.clipboard[d]
       /\ socketUserId[d] # NoUser
       /\ Len(HistoryOf(clipboardHistory, socketUserId[d])) = 1
       /\ clipboardHistory[socketUserId[d]][1].deviceId = Hostname(d)

====
